---- MODULE Spec2Model ----
(***************************************************************************)
(* A model of lib/main.js of @prograp/iterator: the Iterator wrapper, its  *)
(* generator-based chain operations (map, filter, flat), its terminal      *)
(* operations (forEach, reduce, find, findIndex, includes, some, dedupe)   *)
(* and the intoArray sink.                                                 *)
(*                                                                         *)
(* One wrapper chain is modelled: wrapper 0 is Iterator.new(arg), wrapper  *)
(* i (i >= 1) is the wrapper returned by the i-th chain call, whose ref is *)
(* the generator object stages[i].  A terminal operation is invoked on the *)
(* newest wrapper.  Generator objects follow the language's protocol: a    *)
(* generator is single-pass, and leaving a for-of loop early (return or    *)
(* throw in its body) calls return() on the loop's iterator, which closes  *)
(* a generator and, through its own suspended for-of, its upstream.        *)
(***************************************************************************)
EXTENDS Integers, Sequences, FiniteSets, TLC

\* Longest source sequence, longest chain, deepest flat() argument.
MaxLen == 3
MaxStages == 2
MaxDepth == 2
\* Longest source sequence of nested elements.
MaxNested == 2
\* Most wrappers put around a wrapper by Iterator.new(wrapper).
MaxWraps == 2

(***************************************************************************)
(* JavaScript values.  Every value is a record of the same shape:          *)
(*   kind  "num" | "str" | "bool" | "null" | "undefined" | "nan"           *)
(*         | "obj" (a plain record {id, v}) | "arr" | "gen" | "TypeError"  *)
(*   n     the number, the string's length, 1/0 for true/false, or v       *)
(*   id    the id field of a plain record                                  *)
(*   items the elements of an array, or what a generator object yields     *)
(* Two records that are equal stand for the same reference.                *)
(***************************************************************************)
Val(kd, num, ident, elems) ==
    [kind |-> kd, n |-> num, id |-> ident, items |-> elems]
Num(n) == Val("num", n, 0, <<>>)
Str(n) == Val("str", n, 0, <<>>)
Bool(b) == Val("bool", IF b THEN 1 ELSE 0, 0, <<>>)
Null == Val("null", 0, 0, <<>>)
Undefined == Val("undefined", 0, 0, <<>>)
NaN == Val("nan", 0, 0, <<>>)
Obj(id, v) == Val("obj", v, id, <<>>)
Arr(items) == Val("arr", 0, 0, items)
Gen(items) == Val("gen", 0, 0, items)
\* A wrapper object: { ref, __proto__: Iterator } (line 311).
Wrapper == Val("iterator", 0, 0, <<>>)
TypeError == Val("TypeError", 0, 0, <<>>)
\* The error object a user callback throws.
Thrown == Val("Error", 0, 0, <<>>)

Primitives == {"num", "str", "bool", "null", "undefined", "nan"}

\* ToBoolean, as used by if (...), !x and !!x.
Truthy(v) ==
    CASE v.kind = "num" -> v.n # 0
      [] v.kind = "str" -> v.n # 0
      [] v.kind = "bool" -> v.n = 1
      [] v.kind \in {"null", "undefined", "nan"} -> FALSE
      [] OTHER -> TRUE

\* a === b
StrictEq(a, b) == a.kind # "nan" /\ a = b

\* a ?? b
Coalesce(a, b) == IF a.kind \in {"null", "undefined"} THEN b ELSE a

\* (Symbol.iterator in value): "throw" when value is not an object (the in
\* operator raises a TypeError), else whether the object has the method.
isIterator(value) ==
    IF value.kind \in Primitives THEN "throw"
    ELSE IF value.kind \in {"arr", "gen", "iterator"} THEN "true"
    ELSE "false"

(***************************************************************************)
(* User callbacks, drawn from small sets.  A callback is a record          *)
(* [name, v, k, identify, merge]; the fields after name are what a closure  *)
(* captured.                                                               *)
(***************************************************************************)
Fn(nm, value, from) ==
    [v |-> value, name |-> nm, k |-> from, identify |-> "", merge |-> ""]

\* map callbacks: x => x + 1
Transforms == {Fn("inc", Undefined, 0)}

\* filter / find callbacks: x => x, x => x === 0, (x, i) => i >= 1
Preds == {Fn("truthy", Undefined, 0), Fn("isZero", Undefined, 0),
          Fn("fromOne", Undefined, 0)}

\* A callback that throws for one element, x => { if (x === 1) throw e; return x }
\* as a map callback, x => { if (x === 1) throw e; return true } as a predicate.
Boom == Fn("boom", Undefined, 0)

\* Whether the callback throws instead of returning.
Throws(lambda, item, index) == lambda.name = "boom" /\ StrictEq(item, Num(1))

\* The value a map callback returns.
Apply(lambda, item, index) ==
    CASE lambda.name = "inc" ->
           IF item.kind = "num" THEN Num(item.n + 1) ELSE NaN
      [] lambda.name = "index" -> Num(index)
      [] OTHER -> item

\* The truthiness of what a predicate callback returns.  "includes" is the
\* closure of Iterator.includes (lines 209-211).
Test(lambda, item, index) ==
    CASE lambda.name = "truthy" -> Truthy(item)
      [] lambda.name = "isZero" -> StrictEq(item, Num(0))
      [] lambda.name = "fromOne" -> index >= 1
      [] lambda.name = "includes" -> StrictEq(item, lambda.v) /\ index >= lambda.k
      [] lambda.name = "boom" -> TRUE
      [] OTHER -> FALSE

(***************************************************************************)
(* State.                                                                  *)
(*   arg      the value handed to Iterator.new                             *)
(*   created  whether Iterator.new has returned wrapper 0                  *)
(*   error    what Iterator.new raised ("none" before and on success)      *)
(*   gen      the cursor of arg when it is a generator object              *)
(*   stages   the generator objects of the chain wrappers                  *)
(*   last     the newest terminal operation: its value, how its loop ended *)
(*            (stop), the items it was given (seen), the callbacks invoked *)
(*            (log), the positions of arg pulled, whether nothing had been *)
(*            consumed before it (fresh), and stop, Len(seen) and fresh of *)
(*            the operation before it (prevStop, prevN, prevFresh)         *)
(*   taken    what two wrappers of arg, Iterator.new(arg) twice, were       *)
(*            handed by next() calls on their iterators: for each wrapper   *)
(*            the <<position, element>> pairs, in order                     *)
(***************************************************************************)
VARIABLES arg, created, error, gen, stages, last, taken

vars == <<arg, created, error, gen, stages, last, taken>>

\* A generator object made by rawMap / rawFilter / rawFlat: not started.
\* pos is the cursor of its array iterator over arg (when its upstream is an
\* array); buf/bufErr are what its inner rawFlat generators have yet to yield,
\* calls the rawFlat invocations its loop has made.
Stage(kd, lambda, d) ==
    [index |-> 0, op |-> kd, st |-> "start", fn |-> lambda, depth |-> d, pos |-> 0,
     buf |-> <<>>, bufErr |-> FALSE, calls |-> <<>>]

\* The heap a pull works on: cursors, generators, and the record of the
\* callbacks invoked and the source positions pulled.
Heap(g, s) ==
    [gen |-> g, stages |-> s, log |-> <<>>, pulled |-> <<>>]

Call(H, lambda, item, index) ==
    [H EXCEPT !.log = Append(@, [item |-> item, index |-> index, fn |-> lambda.name])]

Result(how, value, heap, at) == [v |-> value, H |-> heap, r |-> how, p |-> at]

\* A variant of NextBase in which a generator object is iterated afresh by
\* every loop, as an array is.
NextBaseRestart(H, p) ==
    IF p >= Len(arg.items)
    THEN Result("done", Undefined, H, p)
    ELSE Result("item", arg.items[p + 1], [H EXCEPT !.pulled = Append(@, p)], p + 1)

\* A variant of NextBase in which the iterators of an array share one cursor,
\* as those of a generator do.
NextBaseShared(H, p) ==
    IF H.gen.pos >= Len(arg.items)
    THEN Result("done", Undefined, H, p)
    ELSE Result("item", arg.items[H.gen.pos + 1],
                [H EXCEPT !.gen.pos = @ + 1, !.pulled = Append(@, H.gen.pos)], p)

\* next() on the iterator of arg: the generator object itself (one shared
\* cursor), or an array iterator at position p.
NextBase(H, p) ==
    IF arg.kind = "gen" THEN
        IF H.gen.done \/ H.gen.pos >= Len(arg.items)
        THEN Result("done", Undefined, [H EXCEPT !.gen.done = TRUE], p)
        ELSE Result("item", arg.items[H.gen.pos + 1],
                    [H EXCEPT !.gen.pos = @ + 1, !.pulled = Append(@, H.gen.pos)], p)
    ELSE
        IF p >= Len(arg.items)
        THEN Result("done", Undefined, H, p)
        ELSE Result("item", arg.items[p + 1],
                    [H EXCEPT !.pulled = Append(@, p)], p + 1)

\* return() on the iterator of arg: closes a generator; an array iterator has
\* no return method.
ReturnBase(H) ==
    IF arg.kind = "gen" THEN [H EXCEPT !.gen.done = TRUE] ELSE H

(***************************************************************************)
(* rawFlat over an array value (the inner generators of lines 255-259).    *)
(* An array has no state of its own, so what an inner generator yields is  *)
(* a function of the array: out, in order, and then err when isIterator    *)
(* raised on an element that is not an object.  calls is the record of the *)
(* rawFlat invocations made: one <<depth, calls>> per invocation, depth the *)
(* argument it was called with and calls the invocations its loop made.    *)
(***************************************************************************)
RECURSIVE rawFlat(_, _)
RECURSIVE flatFrom(_, _)

\* What one turn of the loop yields, and the invocations it made.
Turn(yielded, raised, made) == [calls |-> made, out |-> yielded, err |-> raised]

\* A variant of flatItem that hands its own depth to the inner rawFlat.
flatItemSame(item, depth) ==
    IF depth = 0 THEN Turn(<<item>>, FALSE, <<>>)
    ELSE IF isIterator(item) = "throw" THEN Turn(<<>>, TRUE, <<>>)
    ELSE IF isIterator(item) = "false" THEN Turn(<<item>>, FALSE, <<>>)
    ELSE rawFlat(item.items, depth)

\* One turn of the loop body of rawFlat (lines 243-259) for one item.
flatItem(item, depth) ==
    IF depth = 0 THEN Turn(<<item>>, FALSE, <<>>)
    ELSE IF isIterator(item) = "throw" THEN Turn(<<>>, TRUE, <<>>)
    ELSE IF isIterator(item) = "false" THEN Turn(<<item>>, FALSE, <<>>)
    ELSE rawFlat(item.items, depth - 1)

\* The loop goes on after a turn that yielded one.out.
flatRest(one, rest) == Turn(one.out \o rest.out, rest.err, one.calls \o rest.calls)

flatLoop(one, items, depth) ==
    IF one.err THEN one ELSE flatRest(one, flatFrom(Tail(items), depth))

\* The loop of rawFlat (line 241) over the items still to come.
flatFrom(items, depth) ==
    IF items = <<>> THEN Turn(<<>>, FALSE, <<>>)
    ELSE flatLoop(flatItem(Head(items), depth), items, depth)

\* One invocation of rawFlat with the argument depth, and what its loop did.
Invoked(depth, loop) == Turn(loop.out, loop.err, << <<depth, loop.calls>> >>)

rawFlat(items, depth) == Invoked(depth, flatFrom(items, depth))

(***************************************************************************)
(* The generator objects of the chain.  GenNext(i, H) is next() on         *)
(* stages[i]: it runs the generator body up to its next yield.             *)
(* GenReturn(i, H) is return() on it.  A body is written as two operators, *)
(* X and XStep: XStep is the loop body, given what next() on the loop's    *)
(* iterator returned.                                                      *)
(***************************************************************************)
RECURSIVE GenNext(_, _)
RECURSIVE GenReturn(_, _)
RECURSIVE rawMap(_, _)
RECURSIVE rawFilter(_, _)
RECURSIVE rawFlatGen(_, _)

\* next() on the iterator of this.ref inside generator i (the for-of of
\* lines 82, 122, 241): wrapper i-1's ref is arg or generator i-1.
NextUpBase(b) == Result(b.r, b.v, [b.H EXCEPT !.stages[1].pos = b.p], 0)

NextUp(i, H) ==
    IF i = 1 THEN NextUpBase(NextBase(H, H.stages[1].pos)) ELSE GenNext(i - 1, H)

\* The for-of of generator i is left early: return() on its iterator.
ReturnUp(i, H) ==
    IF i = 1 THEN ReturnBase(H) ELSE GenReturn(i - 1, H)

\* The for-of of generator i ended: upstream is done, or raised.
Finish(i, u) ==
    Result(u.r, u.v, [u.H EXCEPT !.stages[i].st = "done"], 0)

\* Generator i ran its callback on item u.v and counted it.
Ran(i, s, u) ==
    [Call(u.H, s.fn, u.v, s.index) EXCEPT !.stages[i].st = "open",
                                          !.stages[i].index = s.index + 1]

\* The callback of generator i threw on item u.v: the exception leaves the
\* for-of, which calls return() on its iterator, and ends the generator.
Raise(i, s, u) ==
    Result("throw", Thrown,
           ReturnUp(i, [Call(u.H, s.fn, u.v, s.index) EXCEPT !.stages[i].st = "done"]),
           0)

\* A variant of rawMapStep that maps the whole source when first resumed and
\* yields from what it collected.
rawMapStepAll(i, s, u) ==
    IF u.r = "item"
    THEN rawMap(i, [Ran(i, s, u) EXCEPT
                        !.stages[i].buf = Append(@, Apply(s.fn, u.v, s.index))])
    ELSE IF u.r = "done" /\ u.H.stages[i].buf # <<>>
    THEN Result("item", Head(u.H.stages[i].buf),
                [u.H EXCEPT !.stages[i].buf = Tail(@), !.stages[i].st = "open"], 0)
    ELSE Finish(i, u)

\* A variant of rawMapStep that catches what the callback throws and goes on
\* with the next item.
rawMapStepQuiet(i, s, u) ==
    IF u.r # "item" THEN Finish(i, u)
    ELSE IF Throws(s.fn, u.v, s.index) THEN rawMap(i, Ran(i, s, u))
    ELSE Result("item", Apply(s.fn, u.v, s.index), Ran(i, s, u), 0)

\* *rawMap (lines 79-87), resumed.
rawMapStep(i, s, u) ==
    IF u.r # "item" THEN Finish(i, u)
    ELSE IF Throws(s.fn, u.v, s.index) THEN Raise(i, s, u)
    ELSE Result("item", Apply(s.fn, u.v, s.index), Ran(i, s, u), 0)

rawMap(i, H) == rawMapStep(i, H.stages[i], NextUp(i, H))

\* A variant of rawFilterStep that counts only the items it keeps.
rawFilterStepKept(i, s, u) ==
    IF u.r # "item" THEN Finish(i, u)
    ELSE IF ~Test(s.fn, u.v, s.index)
    THEN rawFilter(i, [Call(u.H, s.fn, u.v, s.index) EXCEPT !.stages[i].st = "open"])
    ELSE Result("item", u.v, Ran(i, s, u), 0)

\* *rawFilter (lines 119-133), resumed.
rawFilterStep(i, s, u) ==
    IF u.r # "item" THEN Finish(i, u)
    ELSE IF Throws(s.fn, u.v, s.index) THEN Raise(i, s, u)
    ELSE IF ~Test(s.fn, u.v, s.index) THEN rawFilter(i, Ran(i, s, u))
    ELSE Result("item", u.v, Ran(i, s, u), 0)

rawFilter(i, H) == rawFilterStep(i, H.stages[i], NextUp(i, H))

\* Generator i entered its loop body for item u.v: what the body will yield.
Expand(i, u, one) ==
    [u.H EXCEPT !.stages[i].st = "open", !.stages[i].buf = one.out,
                !.stages[i].bufErr = one.err,
                !.stages[i].calls = @ \o one.calls]

\* *rawFlat (lines 240-261) over this.ref, resumed.
rawFlatStep(i, s, u) ==
    IF u.r # "item" THEN Finish(i, u)
    ELSE rawFlatGen(i, Expand(i, u, flatItem(u.v, s.depth)))

rawFlatRaise(i, H) ==
    Result("throw", TypeError,
           ReturnUp(i, [H EXCEPT !.stages[i].st = "done", !.stages[i].bufErr = FALSE]),
           0)

rawFlatGen(i, H) ==
    IF H.stages[i].buf # <<>>
    THEN Result("item", Head(H.stages[i].buf),
                [H EXCEPT !.stages[i].buf = Tail(@)], 0)
    ELSE IF H.stages[i].bufErr THEN rawFlatRaise(i, H)
    ELSE rawFlatStep(i, H.stages[i], NextUp(i, H))

GenNext(i, H) ==
    IF H.stages[i].st = "done" THEN Result("done", Undefined, H, 0)
    ELSE CASE H.stages[i].op = "map" -> rawMap(i, H)
           [] H.stages[i].op = "filter" -> rawFilter(i, H)
           [] OTHER -> rawFlatGen(i, H)

Closed(i, H) ==
    [H EXCEPT !.stages[i].st = "done", !.stages[i].buf = <<>>,
              !.stages[i].bufErr = FALSE]

GenReturn(i, H) ==
    CASE H.stages[i].st = "start" -> Closed(i, H)
      [] H.stages[i].st = "open" -> ReturnUp(i, Closed(i, H))
      [] OTHER -> H

(***************************************************************************)
(* The for-of loops of the terminal operations, over wrapper w's ref.      *)
(***************************************************************************)
NextTopGen(g, p) == Result(g.r, g.v, g.H, p)

\* next() on the iterator of wrapper w's ref; p is the loop's own array
\* iterator position when the ref is an array.
NextTop(w, H, p) ==
    IF w = 0 THEN NextBase(H, p) ELSE NextTopGen(GenNext(w, H), p)

\* A variant of ReturnTop in which leaving the loop closes nothing.
ReturnTopOpen(w, H) == H

\* The loop is left by return: return() on its iterator.
ReturnTop(w, H) ==
    IF w = 0 THEN ReturnBase(H) ELSE GenReturn(w, H)

\* What a terminal operation hands back: its value (TypeError when it
\* raised), how its loop ended, the heap, and the items it was given.
Outcome(value, how, heap, given) ==
    [H |-> heap, res |-> value, stop |-> how, seen |-> given]

\* The loop ended without a return in its body.
Ended(n, value, seen) ==
    IF n.r = "done" THEN Outcome(value, "drained", n.H, seen)
    ELSE Outcome(n.v, "threw", n.H, seen)

RECURSIVE find(_, _, _, _, _, _)
\* A variant of findStep that goes on after a match and returns the last one.
findStepOn(w, n, index, lambda, seen) ==
    IF n.r # "item"
    THEN Ended(n, IF seen # <<>> THEN seen[Len(seen)] ELSE Undefined, seen)
    ELSE find(w, Call(n.H, lambda, n.v, index + 1), n.p, index + 1, lambda,
              IF Test(lambda, n.v, index + 1) THEN Append(seen, n.v) ELSE seen)

\* find (lines 164-176); index is the loop's counter, -1 before the loop.
findStep(w, n, index, lambda, seen) ==
    IF n.r # "item" THEN Ended(n, Undefined, seen)
    ELSE IF ~Test(lambda, n.v, index + 1)
    THEN find(w, Call(n.H, lambda, n.v, index + 1), n.p, index + 1, lambda,
              Append(seen, n.v))
    ELSE Outcome(n.v, "short", ReturnTop(w, Call(n.H, lambda, n.v, index + 1)),
                 Append(seen, n.v))

find(w, H, p, index, lambda, seen) ==
    findStep(w, NextTop(w, H, p), index, lambda, seen)

RECURSIVE findIndex(_, _, _, _, _, _)
\* findIndex (lines 185-197)
findIndexStep(w, n, index, lambda, seen) ==
    IF n.r # "item" THEN Ended(n, Undefined, seen)
    ELSE IF ~Test(lambda, n.v, index + 1)
    THEN findIndex(w, Call(n.H, lambda, n.v, index + 1), n.p, index + 1, lambda,
                   Append(seen, n.v))
    ELSE Outcome(Num(index + 1), "short",
                 ReturnTop(w, Call(n.H, lambda, n.v, index + 1)), Append(seen, n.v))

findIndex(w, H, p, index, lambda, seen) ==
    findIndexStep(w, NextTop(w, H, p), index, lambda, seen)

\* !!x of a terminal operation's value
NotNot(o) ==
    IF o.stop = "threw" THEN o ELSE [o EXCEPT !.res = Bool(Truthy(o.res))]

\* includes (lines 208-212)
includes(w, H, value, fromIndex) ==
    NotNot(find(w, H, 0, -1, Fn("includes", value, fromIndex), <<>>))

\* some (lines 271-273)
some(w, H, lambda) == NotNot(find(w, H, 0, -1, lambda, <<>>))

(***************************************************************************)
(* reduce, forEach, dedupe, intoArray.                                     *)
(***************************************************************************)
\* A Map: its entries <<[k, v], ...>> in insertion order.
MapHas(m, id) == \E i \in 1..Len(m) : m[i].k = id

MapGet(m, id) ==
    IF MapHas(m, id) THEN m[CHOOSE i \in 1..Len(m) : m[i].k = id].v ELSE Undefined

\* A variant of MapSet that leaves the value of a key that is already there.
MapSetOnce(m, id, value) ==
    IF MapHas(m, id) THEN m ELSE Append(m, [v |-> value, k |-> id])

\* A variant of MapSet that moves a key that is set again to the end.
MapSetMove(m, id, value) ==
    Append(SelectSeq(m, LAMBDA e : e.k # id), [v |-> value, k |-> id])

\* set() keeps the position of a key that is already there.
MapSet(m, id, value) ==
    IF MapHas(m, id)
    THEN [i \in 1..Len(m) |-> IF m[i].k = id THEN [v |-> value, k |-> id] ELSE m[i]]
    ELSE Append(m, [v |-> value, k |-> id])

MapValues(m) == [i \in 1..Len(m) |-> m[i].v]

\* dedupe's identify callbacks: item => item (the default), x => x.id
Identifies == {"identity", "byId"}

\* dedupe's merge callbacks: existing => existing (the default),
\* (existing, next) => next, () => undefined
Merges == {"keep", "next", "none"}

Identify(identify, item) ==
    IF identify = "byId"
    THEN IF item.kind = "obj" THEN Num(item.id) ELSE Undefined
    ELSE item

Merge(merge, existing, next) ==
    CASE merge = "keep" -> existing
      [] merge = "next" -> next
      [] OTHER -> Undefined

\* The closure dedupe hands to reduce.
DedupeFn(idf, mrg) ==
    [v |-> Undefined, name |-> "dedupe", k |-> 0, identify |-> idf, merge |-> mrg]

\* Line 288: if (existing ?? true)
storeAsIs(existing) == Truthy(Coalesce(existing, Bool(TRUE)))

\* The reducer of dedupe (lines 284-297) for a key id whose stored value is
\* existing: the new map, and the heap with the identify and merge calls
\* recorded.
dedupeStore(H, lambda, map, next, id, existing) ==
    IF storeAsIs(existing)
    THEN [H |-> Call(H, Fn("identify", Undefined, 0), next, 0),
          acc |-> MapSet(map, id, next)]
    ELSE [H |-> Call(Call(H, Fn("identify", Undefined, 0), next, 0),
                     Fn("merge", existing, 0), next, 0),
          acc |-> MapSet(map, id,
                         Coalesce(Merge(lambda.merge, existing, next), existing))]

dedupeStep(H, lambda, map, next) ==
    dedupeStore(H, lambda, map, next, Identify(lambda.identify, next),
                MapGet(map, Identify(lambda.identify, next)))

\* reduce callbacks: (acc, item) => [...acc, item], and dedupe's closure.
reduceCall(H, lambda, acc, item, index) ==
    IF lambda.name = "dedupe" THEN dedupeStep(H, lambda, acc, item)
    ELSE [H |-> Call(H, lambda, item, index), acc |-> Arr(Append(acc.items, item))]

RECURSIVE reduce(_, _, _, _, _, _, _)
\* reduce (lines 144-154)
reduceNext(w, n, c, index, lambda, seen) ==
    reduce(w, c.H, n.p, index + 1, lambda, c.acc, Append(seen, n.v))

reduceStep(w, n, index, lambda, initial, seen) ==
    IF n.r # "item" THEN Ended(n, initial, seen)
    ELSE reduceNext(w, n, reduceCall(n.H, lambda, initial, n.v, index), index,
                    lambda, seen)

reduce(w, H, p, index, lambda, initial, seen) ==
    reduceStep(w, NextTop(w, H, p), index, lambda, initial, seen)

RECURSIVE forEach(_, _, _, _, _, _)
\* forEach (lines 94-102)
forEachStep(w, n, index, lambda, seen) ==
    IF n.r # "item" THEN Ended(n, Undefined, seen)
    ELSE forEach(w, Call(n.H, lambda, n.v, index), n.p, index + 1, lambda,
                 Append(seen, n.v))

forEach(w, H, p, index, lambda, seen) ==
    forEachStep(w, NextTop(w, H, p), index, lambda, seen)

\* The wrapper dedupe returns, Iterator.new(map.values()) (line 299), as the
\* array of what it yields.
dedupeResult(o) ==
    IF o.stop = "threw" THEN o ELSE [o EXCEPT !.res = Arr(MapValues(o.res))]

\* dedupe (lines 283-300)
dedupe(w, H, identify, merge) ==
    dedupeResult(reduce(w, H, 0, 0, DedupeFn(identify, merge), <<>>, <<>>))

RECURSIVE arrayFrom(_, _, _, _)
\* Array.from(this.ref)
arrayFromStep(w, n, seen) ==
    IF n.r # "item" THEN Ended(n, Arr(seen), seen)
    ELSE arrayFrom(w, n.H, n.p, Append(seen, n.v))

arrayFrom(w, H, p, seen) == arrayFromStep(w, NextTop(w, H, p), seen)

\* intoArray (lines 319-321)
intoArray(w, H) == arrayFrom(w, H, 0, <<>>)

\* item[0] and item[1] of an entry
EntryKey(item) ==
    IF item.kind = "arr" /\ Len(item.items) >= 1 THEN item.items[1] ELSE Undefined

EntryValue(item) ==
    IF item.kind = "arr" /\ Len(item.items) >= 2 THEN item.items[2] ELSE Undefined

\* ToPropertyKey: a string is its own key and the number 1 becomes "1",
\* which is Str(1), the one-character string of the model.
ToPropertyKey(key) == IF key = Num(1) THEN Str(1) ELSE key

\* The key an entry is stored under by new Map(...) and by
\* Object.fromEntries(...).
SinkKey(op, key) == IF op = "intoObject" THEN ToPropertyKey(key) ELSE key

\* The [key, value] pairs a Map yields when iterated, and the own entries of
\* an object in property order: the integer key "1" first, then the others
\* in insertion order.
Pairs(m) == [i \in 1..Len(m) |-> Arr(<<m[i].k, m[i].v>>)]

Sunk(op, m) ==
    IF op = "intoObject"
    THEN Arr(Pairs(SelectSeq(m, LAMBDA e : e.k = Str(1))
                   \o SelectSeq(m, LAMBDA e : e.k # Str(1))))
    ELSE Arr(Pairs(m))

RECURSIVE entries(_, _, _, _, _, _)
\* new Map(this.ref) and Object.fromEntries(this.ref): every item must be an
\* object, else a TypeError is raised and the iterator is closed.
entriesStep(op, w, n, map, seen) ==
    IF n.r # "item" THEN Ended(n, Sunk(op, map), seen)
    ELSE IF n.v.kind \in Primitives
    THEN Outcome(TypeError, "threw", ReturnTop(w, n.H), Append(seen, n.v))
    ELSE entries(op, w, n.H, n.p,
                 MapSet(map, SinkKey(op, EntryKey(n.v)), EntryValue(n.v)),
                 Append(seen, n.v))

entries(op, w, H, p, map, seen) == entriesStep(op, w, NextTop(w, H, p), map, seen)

\* intoMap (lines 337-339)
intoMap(w, H) == entries("intoMap", w, H, 0, <<>>, <<>>)

\* intoObject (lines 346-348)
intoObject(w, H) == entries("intoObject", w, H, 0, <<>>, <<>>)

\* A variant of OfWrapper in which a wrapper of a wrapper reaches through to
\* the innermost source.
OfWrapperInner(layers, w, H, p) ==
    IF layers = 0 THEN NextTop(w, H, p) ELSE NextTop(0, H, p)

\* next() on the iterator a wrapper hands out (the getter of lines 60-62):
\* the iterator of its ref, which for a wrapper of a wrapper (layers > 0) is
\* what that wrapper's getter hands out, down to wrapper w's ref.
RECURSIVE OfWrapper(_, _, _, _)
OfWrapper(layers, w, H, p) ==
    IF layers = 0 THEN NextTop(w, H, p) ELSE OfWrapper(layers - 1, w, H, p)

RECURSIVE spread(_, _, _, _, _)
\* for (const a of wrapper), collected: [...wrapper]
spreadStep(layers, w, n, seen) ==
    IF n.r # "item" THEN Ended(n, Arr(seen), seen)
    ELSE spread(layers, w, n.H, n.p, Append(seen, n.v))

spread(layers, w, H, p, seen) == spreadStep(layers, w, OfWrapper(layers, w, H, p), seen)

(***************************************************************************)
(* The inputs.                                                             *)
(***************************************************************************)
SeqsUpTo(S, n) == UNION {[1..k -> S] : k \in 0..n}

\* Arrays and generator objects over a set of elements.
Iterables(S, n) == {Arr(s) : s \in SeqsUpTo(S, n)} \cup {Gen(s) : s \in SeqsUpTo(S, n)}

\* Values without the iterator method, and a primitive string.
Others == {Num(1), Bool(TRUE), Null, Undefined, Obj(1, 1), Str(2)}

Elems == {Num(0), Num(1)}

\* Nested elements: a plain record, a number, and arrays of them.
Leaf == Obj(1, 1)

FlatElems == {Leaf, Num(1), Arr(<<Leaf, Arr(<<Leaf, Arr(<<Leaf>>)>>)>>),
              Arr(<<Arr(<<Num(1)>>)>>)}

\* Records {id, v} sharing ids, and a falsy element.
DedupeElems == {Obj(1, 1), Obj(1, 2), Obj(2, 1), Num(0)}

\* Key/value pairs over the keys "bb", "1" and 1, and an item that is no
\* entry.
PairElems == {Arr(<<Str(2), Num(0)>>), Arr(<<Str(2), Num(1)>>),
              Arr(<<Str(1), Num(0)>>), Arr(<<Num(1), Num(1)>>), Num(1)}

NoOp ==
    [op |-> "none", fn |-> Fn("", Undefined, 0), log |-> <<>>, pulled |-> <<>>,
     w |-> 0, res |-> Undefined, stop |-> "none", seen |-> <<>>, fresh |-> TRUE,
     prevStop |-> "none", prevN |-> 0, prevFresh |-> TRUE]

InitWith(args) ==
    /\ arg \in args
    /\ created = FALSE
    /\ error = "none"
    /\ gen = [pos |-> 0, done |-> FALSE]
    /\ stages = <<>>
    /\ last = NoOp
    /\ taken = <<<<>>, <<>>>>

Init == InitWith(Iterables(Elems, MaxLen) \cup Others)

InitFlat == InitWith(Iterables(FlatElems, MaxNested))

InitDedupe == InitWith(Iterables(DedupeElems, MaxLen))

InitPairs == InitWith(Iterables(PairElems, MaxLen))

(***************************************************************************)
(* The operations.                                                         *)
(***************************************************************************)
\* Iterator.new(arg) (lines 306-312)
New ==
    /\ ~created
    /\ error = "none"
    /\ IF isIterator(arg) = "true"
       THEN created' = TRUE /\ error' = error
       ELSE created' = created /\ error' = "TypeError"
    /\ UNCHANGED <<arg, gen, stages, last, taken>>

\* A variant of Chain in which making the wrapper starts the new generator.
ChainPrimed(stage) ==
    /\ created
    /\ last.op = "none"
    /\ Len(stages) < MaxStages
    /\ stages' = GenNext(Len(stages) + 1, Heap(gen, Append(stages, stage))).H.stages
    /\ gen' = GenNext(Len(stages) + 1, Heap(gen, Append(stages, stage))).H.gen
    /\ UNCHANGED <<arg, created, error, last, taken>>

\* A chain call: Iterator.new(generator object), which always passes isIterator.
\* The chain is built before the first terminal operation (spec section 2).
Chain(stage) ==
    /\ created
    /\ last.op = "none"
    /\ Len(stages) < MaxStages
    /\ stages' = Append(stages, stage)
    /\ UNCHANGED <<arg, created, error, gen, last, taken>>

\* map (lines 72-74)
Map == \E lambda \in Transforms : Chain(Stage("map", lambda, 0))

\* filter (lines 112-114)
Filter == \E lambda \in Preds : Chain(Stage("filter", lambda, 0))

\* map and filter with the callback that throws.
MapThrowing == Chain(Stage("map", Boom, 0))

FilterThrowing == Chain(Stage("filter", Boom, 0))

\* flat (lines 221-223)
Flat == \E depth \in 0..MaxDepth : Chain(Stage("flat", Fn("", Undefined, 0), depth))

\* flatMap (lines 233-235): this.map(lambda).flat(depth)
FlatMap ==
    \E lambda \in Transforms, depth \in 0..MaxDepth :
        /\ created
        /\ last.op = "none"
        /\ Len(stages) + 2 <= MaxStages
        /\ stages' = Append(Append(stages, Stage("map", lambda, 0)),
                            Stage("flat", Fn("", Undefined, 0), depth))
        /\ UNCHANGED <<arg, created, error, gen, last, taken>>

\* The newest wrapper, and the heap before a terminal operation.
Top == Len(stages)

Now == Heap(gen, stages)

Untouched == gen.pos = 0 /\ ~gen.done /\ \A i \in 1..Len(stages) : stages[i].st = "start"

\* A terminal operation on the newest wrapper ended with outcome o.
Terminal(name, lambda, o) ==
    /\ created
    /\ gen' = o.H.gen
    /\ stages' = o.H.stages
    /\ last' = [op |-> name, fn |-> lambda, log |-> o.H.log, pulled |-> o.H.pulled,
                w |-> Top, res |-> o.res, stop |-> o.stop, seen |-> o.seen,
                fresh |-> Untouched, prevStop |-> last.stop,
                prevN |-> Len(last.seen), prevFresh |-> last.fresh]
    /\ UNCHANGED <<arg, created, error, taken>>

Find == \E lambda \in Preds : Terminal("find", lambda, find(Top, Now, 0, -1, lambda, <<>>))

FindIndex ==
    \E lambda \in Preds :
        Terminal("findIndex", lambda, findIndex(Top, Now, 0, -1, lambda, <<>>))

Includes ==
    \E value \in Elems, fromIndex \in 0..1 :
        Terminal("includes", Fn("includes", value, fromIndex),
                 includes(Top, Now, value, fromIndex))

Some == \E lambda \in Preds : Terminal("some", lambda, some(Top, Now, lambda))

Reduce ==
    Terminal("reduce", Fn("collect", Undefined, 0),
             reduce(Top, Now, 0, 0, Fn("collect", Undefined, 0), Arr(<<>>), <<>>))

ForEach ==
    Terminal("forEach", Fn("visit", Undefined, 0),
             forEach(Top, Now, 0, 0, Fn("visit", Undefined, 0), <<>>))

Dedupe ==
    \E identify \in Identifies, merge \in Merges :
        Terminal("dedupe", DedupeFn(identify, merge), dedupe(Top, Now, identify, merge))

IntoArray == Terminal("intoArray", Fn("", Undefined, 0), intoArray(Top, Now))

IntoMap == Terminal("intoMap", Fn("", Undefined, 0), intoMap(Top, Now))

IntoObject == Terminal("intoObject", Fn("", Undefined, 0), intoObject(Top, Now))

\* [...Iterator.new(... Iterator.new(wrapper))]: the newest wrapper is wrapped
\* again layers times (each Iterator.new checks isIterator of a wrapper), and
\* the outermost wrapper is iterated.
Spread ==
    \E layers \in 0..MaxWraps :
        /\ isIterator(Wrapper) = "true"
        /\ Terminal("spread", Fn("", Undefined, layers),
                    spread(layers, Top, Now, 0, <<>>))

Next ==
    \/ New
    \/ Map
    \/ Filter
    \/ Flat
    \/ Find
    \/ FindIndex
    \/ Includes
    \/ Some
    \/ Reduce
    \/ ForEach
    \/ Dedupe
    \/ IntoArray

Spec == Init /\ [][Next]_vars

\* The searches and the loops over sequences of numbers.
NextScan ==
    \/ New
    \/ Map
    \/ Filter
    \/ Find
    \/ FindIndex
    \/ Includes
    \/ Some
    \/ Reduce
    \/ ForEach
    \/ IntoArray

SpecScan == Init /\ [][NextScan]_vars

\* flat over nested sequences.
NextFlat ==
    \/ New
    \/ Flat
    \/ Find
    \/ IntoArray

SpecFlat == InitFlat /\ [][NextFlat]_vars

\* dedupe over sequences of records.
NextDedupe ==
    \/ New
    \/ Dedupe
    \/ IntoArray

SpecDedupe == InitDedupe /\ [][NextDedupe]_vars

\* The mapping and record sinks over sequences of pairs.
NextSink ==
    \/ New
    \/ IntoMap
    \/ IntoObject

SpecSink == InitPairs /\ [][NextSink]_vars

\* One next() on the iterator of wrapper a or b of arg. The getter of lines
\* 60-62 hands out arg's own iterator: the generator object itself, or a new
\* array iterator per wrapper, whose position is the number of elements it gave.
Pull ==
    \E a \in 1..2 :
        /\ created
        /\ stages = <<>>
        /\ last.op = "none"
        /\ LET n == NextBase(Heap(gen, <<>>), Len(taken[a]))
           IN  /\ gen' = n.H.gen
               /\ taken' = IF n.r = "item"
                            THEN [taken EXCEPT ![a] = Append(@, <<n.H.pulled[1], n.v>>)]
                            ELSE taken
        /\ UNCHANGED <<arg, created, error, stages, last>>

\* Two wrappers of one source, pulled from in any order.
NextAlias ==
    \/ New
    \/ Pull

SpecAlias == Init /\ [][NextAlias]_vars

\* Building chains, and iterating wrappers.
NextChain ==
    \/ New
    \/ Map
    \/ Filter
    \/ Flat
    \/ FlatMap
    \/ Spread
    \/ IntoArray

SpecChain == Init /\ [][NextChain]_vars

\* Chains with a callback that throws.
NextThrow ==
    \/ New
    \/ MapThrowing
    \/ FilterThrowing
    \/ Map
    \/ Filter
    \/ Find
    \/ Reduce
    \/ ForEach
    \/ IntoArray

SpecThrow == Init /\ [][NextThrow]_vars

(***************************************************************************)
(* Reference definitions the properties are stated with: what a wrapper is *)
(* documented to yield, computed from the source sequence.                 *)
(***************************************************************************)
RECURSIVE Kept(_, _, _)
\* The elements seq[i..] for which lambda(item, position) holds, in order.
Kept(seq, lambda, i) ==
    IF i > Len(seq) THEN <<>>
    ELSE (IF Test(lambda, seq[i], i - 1) THEN <<seq[i]>> ELSE <<>>)
         \o Kept(seq, lambda, i + 1)

RECURSIVE Flattened(_, _)
\* The depth-level flattening of a sequence: arrays are expanded, anything
\* else passes through.
Flattened(seq, depth) ==
    IF seq = <<>> THEN <<>>
    ELSE (IF depth > 0 /\ Head(seq).kind = "arr"
          THEN Flattened(Head(seq).items, depth - 1)
          ELSE <<Head(seq)>>)
         \o Flattened(Tail(seq), depth)

Through(stage, seq) ==
    CASE stage.op = "map" -> [i \in 1..Len(seq) |-> Apply(stage.fn, seq[i], i - 1)]
      [] stage.op = "filter" -> Kept(seq, stage.fn, 1)
      [] OTHER -> Flattened(seq, stage.depth)

RECURSIVE Yields(_)
\* What wrapper w yields when nothing of it has been consumed.
Yields(w) == IF w = 0 THEN arg.items ELSE Through(stages[w], Yields(w - 1))

\* The positions (from 1) of the elements of seq that satisfy lambda.
Matches(seq, lambda) == {i \in 1..Len(seq) : Test(lambda, seq[i], i - 1)}

Least(S) == CHOOSE i \in S : \A j \in S : i <= j

\* The first occurrence of every key, in first-seen order.
RECURSIVE FirstOfKey(_, _, _)
FirstOfKey(seq, identify, i) ==
    IF i > Len(seq) THEN <<>>
    ELSE (IF \E j \in 1..(i - 1) : Identify(identify, seq[j]) = Identify(identify, seq[i])
          THEN <<>> ELSE <<seq[i]>>)
         \o FirstOfKey(seq, identify, i + 1)

\* Whether a value exposes the iteration capability: for (x of value) works.
Iterable(value) == value.kind \in {"arr", "gen", "str"}

\* The wrapper the operations ran on is single-pass: its ref is a generator.
SinglePass == Len(stages) >= 1 \/ arg.kind = "gen"

\* The chain with none of its generators started, over an untouched source.
Unstarted ==
    Heap([pos |-> 0, done |-> FALSE],
         [i \in 1..Len(stages) |-> Stage(stages[i].op, stages[i].fn, stages[i].depth)])

\* The log entries of one callback.
CallsOf(name) == SelectSeq(last.log, LAMBDA c : c.fn = name)

Draining == {"reduce", "forEach", "intoArray"}

\* What an operation returns for the empty sequence.
EmptyResult(op) ==
    CASE op \in {"reduce", "intoArray", "dedupe", "spread"} -> Arr(<<>>)
      [] op \in {"includes", "some"} -> Bool(FALSE)
      [] OTHER -> Undefined

(***************************************************************************)
(* Properties.                                                             *)
(***************************************************************************)
\* C1: findIndex on a wrapper of which nothing was consumed returns -1 when
\* no element satisfies the predicate (the empty sequence included), and
\* otherwise the 0-based position of the first element that does.
C1_FindIndexSentinel ==
    (last.op = "findIndex" /\ last.fresh) =>
        last.res = IF Matches(Yields(last.w), last.fn) = {} THEN Num(-1)
                   ELSE Num(Least(Matches(Yields(last.w), last.fn)) - 1)

\* C2: dedupe(identify) with the default merge yields, in first-seen key
\* order, the first occurrence of every key.
C2_DedupeKeepsFirst ==
    (last.op = "dedupe" /\ last.fn.merge = "keep" /\ last.fresh) =>
        last.res = Arr(FirstOfKey(arg.items, last.fn.identify, 1))

\* C3: over a nested source whose leaves are not iterable, consuming flat(d)
\* raises nothing and yields the d-level flattening.
C3_FlatReference ==
    (last.op = "intoArray" /\ last.fresh /\ Len(stages) = 1) =>
        /\ last.stop = "drained"
        /\ last.res = Arr(Flattened(arg.items, stages[1].depth))

\* C4: includes(value, fromIndex) is true exactly when an element strictly
\* equal to value sits at a position >= fromIndex.
C4_IncludesIff ==
    (last.op = "includes" /\ last.fresh) =>
        last.res = Bool(\E i \in 1..Len(Yields(last.w)) :
                            /\ StrictEq(Yields(last.w)[i], last.fn.v)
                            /\ i - 1 >= last.fn.k)

\* C5: when map(f).find(p) runs over a source and the first element
\* satisfying p is at emitted position k, f was invoked exactly on the
\* source elements 0..k, in order, and exactly those were pulled.
C5_MapFindLazy ==
    (/\ last.op = "find" /\ last.fresh /\ Len(stages) = 1 /\ stages[1].op = "map"
     /\ Matches(Yields(1), last.fn) # {}) =>
        LET k1 == Least(Matches(Yields(1), last.fn))
        IN  /\ CallsOf("inc") = [i \in 1..k1 |->
                                   [item |-> arg.items[i], index |-> i - 1,
                                    fn |-> "inc"]]
            /\ last.pulled = [i \in 1..k1 |-> i - 1]
            /\ last.res = Yields(1)[k1]

\* C5 witness: find matched the first of three mapped elements after one
\* invocation of f.
C5_Witness ==
    /\ last.op = "find" /\ last.fresh /\ Len(stages) = 1 /\ stages[1].op = "map"
    /\ Len(arg.items) = 3
    /\ last.stop = "short"
    /\ Len(CallsOf("inc")) = 1

\* C6 as stated: after a short-circuiting operation stopped early at
\* position k < n-1 of a single-pass wrapper, a second operation that
\* consumes the wrapper is given exactly the elements k+1..n-1.
C6_ResumesAfterShortCircuit ==
    (/\ SinglePass /\ last.prevFresh /\ last.prevStop = "short"
     /\ last.prevN < Len(Yields(last.w))
     /\ last.op \in Draining) =>
        last.seen = SubSeq(Yields(last.w), last.prevN + 1, Len(Yields(last.w)))

\* C6 amended: after a short-circuiting operation stopped early on a
\* single-pass (generator-backed) wrapper, the early return has closed the
\* generator: every later operation is given no element, invokes no callback,
\* pulls nothing from the source and returns its empty-sequence result.
C6_ClosedAfterShortCircuit ==
    (SinglePass /\ last.prevStop = "short") =>
        /\ last.seen = <<>>
        /\ last.log = <<>>
        /\ last.pulled = <<>>
        /\ last.stop = "drained"
        /\ last.res = EmptyResult(last.op)

\* C6 witness: find stopped at the first of three elements of a single-pass
\* wrapper, and the intoArray after it was given nothing.
C6_Witness ==
    /\ SinglePass /\ last.prevFresh /\ last.prevStop = "short"
    /\ last.prevN = 1 /\ Len(Yields(last.w)) = 3
    /\ last.op = "intoArray"
    /\ last.res = Arr(<<>>)

\* C7: once an operation has drained a single-pass wrapper, every later
\* operation is given no element, returns its empty-sequence result (reduce
\* its initial value, find undefined, intoArray an empty array), invokes no
\* callback (forEach's action included) and pulls nothing from the source.
C7_ExhaustedStaysEmpty ==
    (SinglePass /\ last.prevStop = "drained") =>
        /\ last.seen = <<>>
        /\ last.log = <<>>
        /\ last.pulled = <<>>
        /\ last.stop = "drained"
        /\ last.res = EmptyResult(last.op)

\* C7 witness: a reduce after an operation that drained three elements of a
\* single-pass wrapper.
C7_Witness ==
    /\ SinglePass /\ last.prevStop = "drained" /\ last.prevN = 3
    /\ last.op = "reduce"
    /\ last.res = Arr(<<>>)

\* C8: Iterator.new(value) raises the TypeError exactly when value does not
\* expose the iteration capability; otherwise it returns a wrapper and pulls
\* nothing.
C8_NewIffIterable ==
    /\ error = "TypeError" => ~Iterable(arg)
    /\ created => Iterable(arg)
    /\ (created /\ last.op = "none") => gen = [pos |-> 0, done |-> FALSE]
    /\ (~Iterable(arg) /\ ~ENABLED New) => error = "TypeError"
    /\ (Iterable(arg) /\ ~ENABLED New) => created

\* C9: filter(predicate) emits exactly the source elements for which
\* predicate(item, i) holds, i the source position, in source order, and the
\* predicate is invoked once per source element with its source position.
C9_FilterSourceIndex ==
    (/\ last.op \in Draining /\ last.fresh /\ Len(stages) = 1
     /\ stages[1].op = "filter") =>
        /\ last.seen = Kept(arg.items, stages[1].fn, 1)
        /\ CallsOf(stages[1].fn.name) =
               [i \in 1..Len(arg.items) |->
                   [item |-> arg.items[i], index |-> i - 1,
                    fn |-> stages[1].fn.name]]

\* C9 witness: (x, i) => i >= 1 over three elements kept the last two.
C9_Witness ==
    /\ last.op = "intoArray" /\ last.fresh /\ Len(stages) = 1
    /\ stages[1].op = "filter" /\ stages[1].fn.name = "fromOne"
    /\ arg.items = <<Num(1), Num(0), Num(1)>>
    /\ last.res = Arr(<<Num(0), Num(1)>>)

\* C10: some(predicate) is true exactly when find(predicate) over the same
\* sequence returns a value other than undefined.
C10_SomeIffFindDefined ==
    (last.op = "some" /\ last.fresh) =>
        last.res = Bool(find(last.w, Unstarted, 0, -1, last.fn, <<>>).res # Undefined)

(***************************************************************************)
(* dedupe's documented protocol, as a fold over the source.                *)
(***************************************************************************)
\* One item under the protocol: stored as-is under a new key, else replaced
\* by merge(stored, item) unless that is undefined or null.
ProtocolStep(map, identify, merge, item) ==
    IF ~MapHas(map, Identify(identify, item))
    THEN MapSet(map, Identify(identify, item), item)
    ELSE MapSet(map, Identify(identify, item),
                Coalesce(Merge(merge, MapGet(map, Identify(identify, item)), item),
                         MapGet(map, Identify(identify, item))))

RECURSIVE Protocol(_, _, _, _)
Protocol(seq, identify, merge, n) ==
    IF n = 0 THEN <<>>
    ELSE ProtocolStep(Protocol(seq, identify, merge, n - 1), identify, merge, seq[n])

\* The items of seq whose key was seen before them, in order.
RECURSIVE Repeated(_, _, _)
Repeated(seq, identify, i) ==
    IF i > Len(seq) THEN <<>>
    ELSE (IF \E j \in 1..(i - 1) : Identify(identify, seq[j]) = Identify(identify, seq[i])
          THEN <<seq[i]>> ELSE <<>>)
         \o Repeated(seq, identify, i + 1)

\* C11: dedupe(identify, merge) stores the first item of a key as-is, invokes
\* merge exactly once for every later item of a key already seen, and
\* replaces the stored value by the merge result unless that is undefined or
\* null.
C11_DedupeMergeProtocol ==
    (last.op = "dedupe" /\ last.fresh) =>
        /\ last.res = Arr(MapValues(Protocol(arg.items, last.fn.identify,
                                             last.fn.merge, Len(arg.items))))
        /\ [i \in 1..Len(CallsOf("merge")) |-> CallsOf("merge")[i].item] =
               Repeated(arg.items, last.fn.identify, 1)

\* What wrapper w yields from a source that yields seq.
RECURSIVE ThroughAll(_, _)
ThroughAll(w, seq) == IF w = 0 THEN seq ELSE Through(stages[w], ThroughAll(w - 1, seq))

\* The positions (from 1) of the source elements the throwing callback
\* throws for.
Fatal == {i \in 1..Len(arg.items) : Throws(Boom, arg.items[i], i - 1)}

\* C12: when the map/filter callback of the first stage (the one callback of
\* the chain that throws) throws for the
\* source element at position k, building the chain raises nothing and pulls
\* nothing, and an operation that drains the chain raises that error when
\* element k is pulled: the callback ran on elements 0..k and on no other,
\* the elements before k went through the chain to the operation, and no
\* callback saw a position beyond k.
C12_ThrowsWhenPulled ==
    /\ (stages # <<>> /\ last.op = "none") => (error = "none" /\ Untouched)
    /\ (/\ last.op \in Draining /\ last.fresh /\ Len(stages) >= 1
        /\ stages[1].fn = Boom /\ Fatal # {}
        /\ \A i \in 2..Len(stages) : stages[i].fn # Boom) =>
           /\ last.stop = "threw"
           /\ last.res = Thrown
           /\ CallsOf("boom") =
                  [i \in 1..Least(Fatal) |->
                      [item |-> arg.items[i], index |-> i - 1, fn |-> "boom"]]
           /\ last.pulled = [i \in 1..Least(Fatal) |-> i - 1]
           /\ last.seen = ThroughAll(last.w, SubSeq(arg.items, 1, Least(Fatal) - 1))
           /\ \A i \in 1..Len(last.log) : last.log[i].index < Least(Fatal)

\* C12 witness: forEach over a mapped three-element source whose second
\* element makes the callback throw; the action ran once.
C12_Witness ==
    /\ last.op = "forEach" /\ last.fresh /\ Len(stages) = 1
    /\ stages[1].op = "map" /\ stages[1].fn = Boom
    /\ arg.items = <<Num(0), Num(1), Num(0)>>
    /\ last.stop = "threw"
    /\ Len(CallsOf("visit")) = 1

\* C13: after any sequence of map, filter, flat and flatMap calls and before
\* the first terminal operation, nothing was pulled from the source (its
\* cursor is where it was) and no generator of the chain has started, so no
\* callback was invoked.
C13_ChainPullsNothing ==
    last.op = "none" =>
        /\ gen = [pos |-> 0, done |-> FALSE]
        /\ \A i \in 1..Len(stages) :
               /\ stages[i].st = "start"
               /\ stages[i].index = 0
               /\ stages[i].pos = 0
               /\ stages[i].buf = <<>>

\* C13 witness: a flatMap over a three-element generator, nothing consumed.
C13_Witness ==
    /\ last.op = "none" /\ Len(stages) = 2
    /\ stages[1].op = "map" /\ stages[2].op = "flat"
    /\ arg.kind = "gen" /\ Len(arg.items) = 3

\* C14: iterating a wrapper (also a wrapper of a wrapper) of which nothing
\* was consumed yields what iterating its source yields, in order, and moves
\* the source's cursor as that does: every position is pulled once, and a
\* generator source ends exhausted.
C14_WrapperTransparent ==
    (/\ last.op = "spread" /\ last.fresh
     /\ \A i \in 1..Len(stages) : stages[i].op # "flat") =>
        /\ last.stop = "drained"
        /\ last.res = Arr(Yields(last.w))
        /\ last.pulled = [i \in 1..Len(arg.items) |-> i - 1]
        /\ arg.kind = "gen" => gen = [pos |-> Len(arg.items), done |-> TRUE]

\* C14 witness: a wrapper of a wrapper of a filter over three elements.
C14_Witness ==
    /\ last.op = "spread" /\ last.fresh /\ last.fn.k = 2
    /\ Len(stages) = 1 /\ stages[1].op = "filter"
    /\ Len(arg.items) = 3 /\ Len(last.res.items) = 2

\* Every item of the source is a [key, value] pair.
AllPairs ==
    \A i \in 1..Len(arg.items) :
        arg.items[i].kind = "arr" /\ Len(arg.items[i].items) = 2

\* The positions of the pairs that are the last of their key, keys taken as
\* given (raw) or as the sink stores them.
LastOfKey(raw) ==
    {i \in 1..Len(arg.items) :
        \A j \in (i + 1)..Len(arg.items) :
            IF raw THEN EntryKey(arg.items[j]) # EntryKey(arg.items[i])
            ELSE SinkKey(last.op, EntryKey(arg.items[j])) #
                     SinkKey(last.op, EntryKey(arg.items[i]))}

\* The sink kept one entry per key, holding the value of the key's last
\* pair, and a mapping of pairs with distinct keys yields the pairs again.
SinkKeeps(raw) ==
    /\ last.stop = "drained"
    /\ Len(last.res.items) = Cardinality(LastOfKey(raw))
    /\ \A i \in LastOfKey(raw) :
           \E j \in 1..Len(last.res.items) :
               last.res.items[j] = Arr(<<SinkKey(last.op, EntryKey(arg.items[i])),
                                         EntryValue(arg.items[i])>>)
    /\ (last.op = "intoMap" /\ Cardinality(LastOfKey(raw)) = Len(arg.items)) =>
           last.res.items = arg.items

\* C15 as stated: over key/value pairs, intoMap and intoObject keep one entry
\* per distinct key with the value of its last occurrence; with distinct
\* keys the mapping yields the same pairs in the same order and the record
\* has exactly those keys and values.
C15_SinkRoundTrip ==
    (last.op \in {"intoMap", "intoObject"} /\ last.fresh /\ AllPairs) =>
        SinkKeeps(TRUE)

\* C15 amended: the same, with two keys of intoObject counted as one key
\* when they convert to the same property key (1 and "1").
C15_SinkRoundTripByPropertyKey ==
    (last.op \in {"intoMap", "intoObject"} /\ last.fresh /\ AllPairs) =>
        SinkKeeps(FALSE)

\* C15 witness: intoMap over three pairs, the first two with the same key.
C15_Witness ==
    /\ last.op = "intoMap" /\ last.fresh
    /\ arg.items = <<Arr(<<Str(2), Num(0)>>), Arr(<<Str(2), Num(1)>>),
                     Arr(<<Str(1), Num(0)>>)>>
    /\ last.res = Arr(<<Arr(<<Str(2), Num(1)>>), Arr(<<Str(1), Num(0)>>)>>)

\* The callbacks of a map stage and a filter stage after it, one element at a
\* time: f(x0), p(f(x0)), f(x1), p(f(x1)), ...
Alternating(f, p, seq) ==
    [j \in 1..(2 * Len(seq)) |->
        IF j % 2 = 1
        THEN [item |-> seq[(j + 1) \div 2], index |-> (j - 1) \div 2, fn |-> f.name]
        ELSE [item |-> Apply(f, seq[j \div 2], (j \div 2) - 1),
              index |-> (j \div 2) - 1, fn |-> p.name]]

\* The calls of the two stages' callbacks during the last operation.
StageCalls ==
    SelectSeq(last.log, LAMBDA c : c.fn \in {stages[1].fn.name, stages[2].fn.name})

\* C16: when a chain map(f).filter(p) is consumed by a terminal operation
\* (whose own callback is not p), the callbacks ran in the order f(x0),
\* p(f(x0)), f(x1), p(f(x1)), ...: one call of f and one of p per element
\* pulled, and all of them when the operation drains the chain.
C16_StagesAlternate ==
    (/\ Len(stages) = 2 /\ stages[1].op = "map" /\ stages[2].op = "filter"
     /\ last.op # "none" /\ last.fresh
     /\ last.fn.name # stages[2].fn.name) =>
        /\ StageCalls = SubSeq(Alternating(stages[1].fn, stages[2].fn, arg.items),
                               1, Len(StageCalls))
        /\ Len(StageCalls) = 2 * Len(last.pulled)
        /\ last.op \in Draining => Len(StageCalls) = 2 * Len(arg.items)

\* C16 witness: forEach over map(f).filter(p) of three elements, with six
\* stage callbacks.
C16_Witness ==
    /\ Len(stages) = 2 /\ stages[1].op = "map" /\ stages[2].op = "filter"
    /\ last.op = "forEach" /\ last.fresh
    /\ Len(arg.items) = 3
    /\ Len(StageCalls) = 6

\* Every invocation recorded in calls was made with depth - 1, which lies in
\* 0..top, and so on below it; an invocation with depth 0 made none.
RECURSIVE WellNested(_, _, _)
WellNested(top, depth, calls) ==
    /\ depth = 0 => calls = <<>>
    /\ \A j \in 1..Len(calls) :
           /\ calls[j][1] = depth - 1
           /\ calls[j][1] \in 0..top
           /\ WellNested(top, calls[j][1], calls[j][2])

\* C17: for flat(d), d >= 0, the depth of every recursive rawFlat invocation
\* is one less than that of the invocation that made it, lies in 0..d and is
\* never negative, and an invocation with depth 0 makes none.
C17_DepthFloor ==
    \A i \in 1..Len(stages) :
        stages[i].op = "flat" =>
            WellNested(stages[i].depth, stages[i].depth, stages[i].calls)

\* C17 witness: flat(2) drained over an array nested three deep: one
\* invocation with depth 1, which made one with depth 0, which made none and
\* yielded the innermost array as it is.
C17_Witness ==
    /\ Len(stages) = 1 /\ stages[1].op = "flat" /\ stages[1].depth = 2
    /\ last.op = "intoArray" /\ last.stop = "drained"
    /\ stages[1].calls = << <<1, << <<0, <<>>>> >>>> >>
    /\ last.res = Arr(<<Leaf, Leaf, Arr(<<Leaf>>)>>)

\* C18: when dedupe returns, every source element was pulled and identify
\* was invoked once per element, in order, and the wrapper returned yields
\* one value per distinct key, in the order of the keys' first occurrences.
C18_DedupeEagerOrdered ==
    (last.op = "dedupe" /\ last.fresh) =>
        /\ last.stop = "drained"
        /\ last.pulled = [i \in 1..Len(arg.items) |-> i - 1]
        /\ arg.kind = "gen" => gen.done
        /\ [i \in 1..Len(CallsOf("identify")) |-> CallsOf("identify")[i].item] =
               arg.items
        /\ [j \in 1..Len(last.res.items) |->
               Identify(last.fn.identify, last.res.items[j])] =
           [j \in 1..Len(FirstOfKey(arg.items, last.fn.identify, 1)) |->
               Identify(last.fn.identify,
                        FirstOfKey(arg.items, last.fn.identify, 1)[j])]

\* C18 witness: the third of three records has the key of the first; the
\* stored value was replaced and stayed in first place.
C18_Witness ==
    /\ last.op = "dedupe" /\ last.fresh /\ last.fn.identify = "byId"
    /\ arg.items = <<Obj(1, 1), Obj(2, 1), Obj(1, 2)>>
    /\ last.res = Arr(<<Obj(1, 2), Obj(2, 1)>>)

\* The source positions handed to wrapper a.
Positions(a) == {taken[a][i][1] : i \in 1..Len(taken[a])}

\* C19: when two wrappers of one single-pass source are pulled from in any
\* order, no source element is handed to both, each wrapper is handed its
\* elements in source order, and together they were handed a prefix of the
\* source.
C19_AliasedSinglePass ==
    arg.kind = "gen" =>
        /\ Positions(1) \cap Positions(2) = {}
        /\ \A a \in 1..2 :
               /\ \A i \in 1..Len(taken[a]) :
                      taken[a][i][2] = arg.items[taken[a][i][1] + 1]
               /\ \A i, j \in 1..Len(taken[a]) :
                      i < j => taken[a][i][1] < taken[a][j][1]
        /\ Positions(1) \cup Positions(2) = 0..(Len(taken[1]) + Len(taken[2]) - 1)
        /\ gen.pos = Len(taken[1]) + Len(taken[2])

\* C19 witness: of three elements of a generator, the first and the third
\* went to one wrapper and the second to the other.
C19_Witness ==
    /\ arg.kind = "gen" /\ Len(arg.items) = 3
    /\ Positions(1) = {0, 2}
    /\ Positions(2) = {1}

\* C20: every terminal operation on a wrapper of an array iterates the array
\* afresh, whatever ran before: it is handed the elements from position 0
\* on, up to its first match or, for a draining operation, to the end, and
\* its callback is invoked with the indices 0, 1, 2, ...
C20_ArrayRestarts ==
    (Len(stages) = 0 /\ arg.kind = "arr" /\ last.op # "none") =>
        LET m == Matches(arg.items, last.fn)
            upto == IF last.op \in Draining \/ m = {} THEN Len(arg.items) ELSE Least(m)
        IN  /\ last.seen = SubSeq(arg.items, 1, upto)
            /\ last.pulled = [i \in 1..upto |-> i - 1]
            /\ \A i \in 1..Len(last.log) :
                   last.log[i].index = i - 1 /\ last.log[i].item = arg.items[i]

\* C20 witness: a reduce over all three elements of an array after a search
\* that stopped at the first one.
C20_Witness ==
    /\ Len(stages) = 0 /\ arg.kind = "arr" /\ Len(arg.items) = 3
    /\ last.prevStop = "short" /\ last.prevN = 1
    /\ last.op = "reduce"
    /\ last.res = Arr(arg.items)

====
